---- MODULE Spec2Model ----
(***************************************************************************)
(* Window and focus management of sngrep's TUI toolkit                     *)
(* (src/tui/widgets/window.c).  The state is the WindowPrivate structure   *)
(* of one Window, the widget tree below it and the per-widget attributes   *)
(* the Window consults (can_focus, visible).  Every public entry point of  *)
(* window.c is one action.  Widget, Container and keybinding code lives in *)
(* other files of the repository and is modelled from their contract.      *)
(***************************************************************************)
EXTENDS Integers, Sequences, FiniteSets, TLC

\* ---------------------------------------------------------------- bounds
NumWidgets == 3          \* widgets that exist besides the Window
NumContainers == 1       \* widgets 1..NumContainers are Containers (boxes)
MaxDim == 4              \* largest window or screen dimension, in cells

\* ------------------------------------------------------------- constants
NULL == -1               \* the null pointer
Window == 0              \* SNG_WIDGET(window): the Window seen as a widget
Widgets == 1..NumWidgets
Nodes == {Window} \cup Widgets

KEY_HANDLED == "KEY_HANDLED"
Verdicts == {"KEY_HANDLED", "KEY_NOT_HANDLED"}
NoRet == "none"          \* the call has not returned a value

Keys == {"KEY_TAB", "KEY_BTAB", "KEY_X"}

VARIABLES
    priv,        \* WindowPrivate: changed, focus_chain, focus_default, focus
    children,    \* Container child lists, per node
    can_focus,   \* SngWidget can-focus property, fixed at construction
    visible,     \* SngWidget visibility
    status,      \* "running", or how the process ended: "crashed", "hung"
    notes,       \* widget callbacks invoked by the last operation, in order
    lastOp,      \* the last operation: name, argument, result and pre-state
    streak,      \* focus after each of the latest consecutive focus_next calls
    screen,      \* stdscr: maxy rows, maxx columns
    geom,        \* the Window's height, width, position and realized flag
    tty          \* the terminal's input mode

vars == <<priv, children, can_focus, visible, status, notes, lastOp, streak,
          screen, geom, tty>>

winvars == <<priv, children, can_focus, visible, status, streak>>
termvars == <<screen, geom, tty>>

\* ------------------------------------------------------- widget contract
TUI_IS_CONTAINER(widget) == widget = Window \/ widget \in 1..NumContainers

container_get_children(ch, widget) == ch[widget]

sng_widget_can_focus(widget) == can_focus[widget]

sng_widget_is_visible(vis, widget) == vis[widget]

\* key_find_action(key, ACTION_UNKNOWN): the keybinding table.
key_find_action(key) ==
    CASE key = "KEY_TAB"   -> "ACTION_NEXT_FIELD"
      [] key = "KEY_BTAB"  -> "ACTION_PREV_FIELD"
      [] OTHER             -> "ACTION_UNKNOWN"

RECURSIVE Flatten(_)
Flatten(ss) == IF ss = <<>> THEN <<>> ELSE Head(ss) \o Flatten(Tail(ss))

Range(s) == {s[i] : i \in 1..Len(s)}

\* Nodes of the tree rooted at n, the root included.
RECURSIVE Subtree(_, _)
Subtree(ch, n) == {n} \cup UNION {Subtree(ch, ch[n][i]) : i \in 1..Len(ch[n])}

HasParent(ch, w) == \E n \in Nodes : w \in Range(ch[n])

\* ------------------------------------------------------------ glib lists
\* g_list_find: position of the first link holding data, 0 for NULL.
g_list_find(list, data) ==
    IF \E i \in 1..Len(list) : list[i] = data
    THEN CHOOSE i \in 1..Len(list) :
            list[i] = data /\ \A j \in 1..(i - 1) : list[j] # data
    ELSE 0

g_list_first(list) == IF Len(list) = 0 THEN 0 ELSE 1

g_list_last(list) == Len(list)

g_list_append(list, data) == Append(list, data)

\* Handlers a widget has connected to its grab-focus / lose-focus signals:
\* window_update_focus_chain connects one of each per chain entry.
SignalHandlers(p, widget) ==
    Cardinality({i \in 1..Len(p.focus_chain) : p.focus_chain[i] = widget})

\* --------------------------------------------------------- result records
\* What one call did: the new WindowPrivate, the callbacks it invoked, how
\* it ended, its return value, loop iterations and whether a NULL list
\* position was dereferenced.
Result(p, n, st, ret, steps, nd) ==
    [priv |-> p, notes |-> n, status |-> st, ret |-> ret,
     steps |-> steps, nullDeref |-> nd]

Lost(w) == <<"focus_lost", w>>
Gain(w) == <<"focus_gain", w>>
KeyPressed(w) == <<"key_pressed", w>>
Clicked(w, v) == <<"clicked", w, v>>

\* --------------------------------------------------------- focus transfer
\* Variant: the new widget is told of the gain before the old one of the loss.
window_set_focused_widget_GainFirst(p, n, widget) ==
    IF p.focus = widget
    THEN [priv |-> p, notes |-> n]
    ELSE [priv |-> [p EXCEPT !.focus = widget],
          notes |-> n \o <<Gain(widget), Lost(p.focus)>>]

\* Variant: no early return when the widget already has the focus.
window_set_focused_widget_NoGuard(p, n, widget) ==
    [priv |-> [p EXCEPT !.focus = widget],
     notes |-> n \o <<Lost(p.focus), Gain(widget)>>]

window_set_focused_widget(p, n, widget) ==
    IF p.focus = widget
    THEN [priv |-> p, notes |-> n]
    ELSE [priv |-> [p EXCEPT !.focus = widget],
          notes |-> n \o <<Lost(p.focus), Gain(widget)>>]

\* sng_widget_grab_focus: emits grab-focus, running every connected handler.
RECURSIVE EmitGrabFocus(_, _, _, _)
EmitGrabFocus(p, n, widget, k) ==
    IF k = 0 THEN [priv |-> p, notes |-> n]
    ELSE LET r == window_set_focused_widget(p, n, widget)
         IN  EmitGrabFocus(r.priv, r.notes, widget, k - 1)

sng_widget_grab_focus(p, n, widget) ==
    IF widget = NULL THEN [priv |-> p, notes |-> n]
    ELSE EmitGrabFocus(p, n, widget, SignalHandlers(p, widget))

\* Variant: the widget is recorded but not asked to grab the focus.
window_set_default_focus_RecordOnly(p, widget) ==
    [priv |-> [p EXCEPT !.focus_default = widget], notes |-> <<>>]

window_set_default_focus(p, widget) ==
    sng_widget_grab_focus([p EXCEPT !.focus_default = widget], <<>>, widget)

\* Variant: the fallback hands the focus back to the Window.
window_focus_default_widget_ToWindow(p, n) ==
    window_set_focused_widget(p, n, Window)

window_focus_default_widget(p, n) ==
    sng_widget_grab_focus(p, n, p.focus_default)

\* ------------------------------------------------------- focus navigation
\* A list position is 1..Len(list), or 0 for a NULL GList pointer.
LinkNext(list, pos) == IF pos = Len(list) THEN 0 ELSE pos + 1
LinkPrev(list, pos) == pos - 1

Scan(st, pos, steps, nd) ==
    [status |-> st, pos |-> pos, steps |-> steps, nullDeref |-> nd]

\* Reading a field through a NULL GList pointer is undefined: the process
\* is killed, or the load yields a zero word and execution goes on.
NullDerefCrash(steps) == Scan("crashed", 0, steps, TRUE)

\* The do/while of window_focus_next, entered with `current` after `steps`
\* completed iterations.  The loop's only state is `current`, so once more
\* iterations than there are positions have run it never exits.
RECURSIVE FocusNextLoop(_, _, _, _, _)
FocusNextLoop(chain, vis, current, steps, nd) ==
    IF steps > Len(chain) + 1 THEN {Scan("hung", current, steps, nd)}
    ELSE
      LET derefCur == current = 0
          nxt == IF derefCur THEN g_list_first(chain)
                 ELSE IF LinkNext(chain, current) = 0
                      THEN g_list_first(chain)
                      ELSE LinkNext(chain, current)
          nd1 == nd \/ derefCur
          cond == IF nxt = 0
                  THEN {NullDerefCrash(steps + 1)}
                         \cup FocusNextLoop(chain, vis, nxt, steps + 1, TRUE)
                  ELSE IF sng_widget_is_visible(vis, chain[nxt])
                       THEN {Scan("done", nxt, steps + 1, nd1)}
                       ELSE FocusNextLoop(chain, vis, nxt, steps + 1, nd1)
      IN  (IF derefCur THEN {NullDerefCrash(steps)} ELSE {}) \cup cond

RECURSIVE FocusPrevLoop(_, _, _, _, _)
FocusPrevLoop(chain, vis, current, steps, nd) ==
    IF steps > Len(chain) + 1 THEN {Scan("hung", current, steps, nd)}
    ELSE
      LET derefCur == current = 0
          nxt == IF derefCur THEN g_list_last(chain)
                 ELSE IF LinkPrev(chain, current) = 0
                      THEN g_list_last(chain)
                      ELSE LinkPrev(chain, current)
          nd1 == nd \/ derefCur
          cond == IF nxt = 0
                  THEN {NullDerefCrash(steps + 1)}
                         \cup FocusPrevLoop(chain, vis, nxt, steps + 1, TRUE)
                  ELSE IF sng_widget_is_visible(vis, chain[nxt])
                       THEN {Scan("done", nxt, steps + 1, nd1)}
                       ELSE FocusPrevLoop(chain, vis, nxt, steps + 1, nd1)
      IN  (IF derefCur THEN {NullDerefCrash(steps)} ELSE {}) \cup cond

\* Turns the outcome of a scan into the outcome of the navigation call.
FocusNavResult(p, n, o) ==
    IF o.status = "done"
    THEN LET r == window_set_focused_widget(p, n, p.focus_chain[o.pos])
         IN  Result(r.priv, r.notes, "running", NoRet, o.steps, o.nullDeref)
    ELSE Result(p, n, o.status, NoRet, o.steps, o.nullDeref)

\* Variant: the loop does not test the candidate's visibility.
window_focus_next_NoSkip(p, vis) ==
    LET current == g_list_find(p.focus_chain, p.focus)
    IN  {FocusNavResult(p, <<>>, o) :
            o \in FocusNextLoop(p.focus_chain, [w \in DOMAIN vis |-> TRUE],
                                current, 0, FALSE)}

\* Variant: the scan starts at the head of the chain, not at the focused
\* widget's link.
window_focus_next_FromFirst(p, vis) ==
    {FocusNavResult(p, <<>>, o) :
        o \in FocusNextLoop(p.focus_chain, vis, g_list_first(p.focus_chain),
                            0, FALSE)}

window_focus_next(p, vis) ==
    LET current == g_list_find(p.focus_chain, p.focus)
    IN  {FocusNavResult(p, <<>>, o) :
            o \in FocusNextLoop(p.focus_chain, vis, current, 0, FALSE)}

\* Variant: the loop does not test the candidate's visibility.
window_focus_prev_NoSkip(p, vis) ==
    LET current == g_list_find(p.focus_chain, p.focus)
    IN  {FocusNavResult(p, <<>>, o) :
            o \in FocusPrevLoop(p.focus_chain, [w \in DOMAIN vis |-> TRUE],
                                current, 0, FALSE)}

window_focus_prev(p, vis) ==
    LET current == g_list_find(p.focus_chain, p.focus)
    IN  {FocusNavResult(p, <<>>, o) :
            o \in FocusPrevLoop(p.focus_chain, vis, current, 0, FALSE)}

\* ------------------------------------------------------------------ redraw
\* klass->redraw is the subclass hook: absent, or returning either verdict.
RedrawHooks == {"none", "yes", "no"}

\* Variant: the forced redraw does not clear the flag.
window_redraw_KeepsDirty(p, hook) ==
    IF p.changed
    THEN Result(p, <<>>, "running", TRUE, 0, FALSE)
    ELSE IF hook # "none"
         THEN Result(p, <<<<"redraw_hook", Window>>>>, "running", hook = "yes", 0, FALSE)
         ELSE Result(p, <<>>, "running", TRUE, 0, FALSE)

window_redraw(p, hook) ==
    IF p.changed
    THEN Result([p EXCEPT !.changed = FALSE], <<>>, "running", TRUE, 0, FALSE)
    ELSE IF hook # "none"
         THEN Result(p, <<<<"redraw_hook", Window>>>>, "running", hook = "yes", 0, FALSE)
         ELSE Result(p, <<>>, "running", TRUE, 0, FALSE)

\* ------------------------------------------------------------ focus chain
\* Variant: the children are walked before the widget itself is appended.
RECURSIVE window_update_focus_chain_PostOrder(_, _, _)
window_update_focus_chain_PostOrder(chain, ch, widget) ==
    LET kids == container_get_children(ch, widget)
        Walk[i \in 0..Len(kids)] ==
            IF i = 0 THEN chain
            ELSE window_update_focus_chain_PostOrder(Walk[i - 1], ch, kids[i])
        c1 == IF TUI_IS_CONTAINER(widget) THEN Walk[Len(kids)] ELSE chain
    IN  IF sng_widget_can_focus(widget) THEN g_list_append(c1, widget) ELSE c1

RECURSIVE window_update_focus_chain(_, _, _)
window_update_focus_chain(chain, ch, widget) ==
    LET c1 == IF sng_widget_can_focus(widget)
              THEN g_list_append(chain, widget)
              ELSE chain
        kids == container_get_children(ch, widget)
        Walk[i \in 0..Len(kids)] ==
            IF i = 0 THEN c1
            ELSE window_update_focus_chain(Walk[i - 1], ch, kids[i])
    IN  IF TUI_IS_CONTAINER(widget) THEN Walk[Len(kids)] ELSE c1

\* TUI_CONTAINER_CLASS(window_parent_class)->add
container_add(ch, container, widget) ==
    [ch EXCEPT ![container] = Append(@, widget)]

\* Variant: the parent class's add is not chained up to.
window_add_widget_NoChainUp(p, ch, widget) ==
    [priv |-> [p EXCEPT !.focus_chain =
                   window_update_focus_chain(p.focus_chain, ch, widget)],
     children |-> ch]

window_add_widget(p, ch, widget) ==
    [priv |-> [p EXCEPT !.focus_chain =
                   window_update_focus_chain(p.focus_chain, ch, widget)],
     children |-> container_add(ch, Window, widget)]

\* ---------------------------------------------------------- input dispatch
\* container_find_by_position: the deepest widget of the Window's subtree
\* under the event, NULL when there is none.  An event is identified by
\* the widget it lands on.
container_find_by_position(ch, hit) ==
    IF hit \in Subtree(ch, Window) \ {Window} THEN hit ELSE NULL

\* Variant: the dirty flag is set only when a widget was hit.
window_handle_mouse_DirtyOnHit(p, ch, hit) ==
    LET clicked_widget == container_find_by_position(ch, hit)
    IN  IF clicked_widget # NULL
        THEN LET r == window_set_focused_widget([p EXCEPT !.changed = TRUE],
                                                <<>>, clicked_widget)
             IN  {Result(r.priv, r.notes \o <<Clicked(clicked_widget, v)>>,
                         "running", v, 0, FALSE) : v \in Verdicts}
        ELSE {Result(p, <<>>, "running", KEY_HANDLED, 0, FALSE)}

\* Variant: a click on no widget gives the focus back to the Window.
window_handle_mouse_MissUnfocuses(p, ch, hit) ==
    LET p1 == [p EXCEPT !.changed = TRUE]
        clicked_widget == container_find_by_position(ch, hit)
        target == IF clicked_widget # NULL THEN clicked_widget ELSE Window
        r == window_set_focused_widget(p1, <<>>, target)
    IN  IF clicked_widget # NULL
        THEN {Result(r.priv, r.notes \o <<Clicked(clicked_widget, v)>>,
                     "running", v, 0, FALSE) : v \in Verdicts}
        ELSE {Result(r.priv, r.notes, "running", KEY_HANDLED, 0, FALSE)}

\* Variant: a click on a widget is reported handled whatever the widget says.
window_handle_mouse_AlwaysHandled(p, ch, hit) ==
    LET p1 == [p EXCEPT !.changed = TRUE]
        clicked_widget == container_find_by_position(ch, hit)
    IN  IF clicked_widget # NULL
        THEN LET r == window_set_focused_widget(p1, <<>>, clicked_widget)
             IN  {Result(r.priv, r.notes \o <<Clicked(clicked_widget, v)>>,
                         "running", KEY_HANDLED, 0, FALSE) : v \in Verdicts}
        ELSE {Result(p1, <<>>, "running", KEY_HANDLED, 0, FALSE)}

window_handle_mouse(p, ch, hit) ==
    LET p1 == [p EXCEPT !.changed = TRUE]
        clicked_widget == container_find_by_position(ch, hit)
    IN  IF clicked_widget # NULL
        THEN LET r == window_set_focused_widget(p1, <<>>, clicked_widget)
             IN  {Result(r.priv, r.notes \o <<Clicked(clicked_widget, v)>>,
                         "running", v, 0, FALSE) : v \in Verdicts}
        ELSE {Result(p1, <<>>, "running", KEY_HANDLED, 0, FALSE)}

Returned(r, ret) ==
    IF r.status = "running" THEN [r EXCEPT !.ret = ret] ELSE r

window_handle_key(p, vis, key) ==
    LET p1 == [p EXCEPT !.changed = TRUE]
        action == key_find_action(key)
    IN  IF action = "ACTION_NEXT_FIELD"
        THEN {Returned(r, KEY_HANDLED) : r \in window_focus_next(p1, vis)}
        ELSE IF action = "ACTION_PREV_FIELD"
        THEN {Returned(r, KEY_HANDLED) : r \in window_focus_prev(p1, vis)}
        ELSE {Result(p1, <<KeyPressed(p1.focus)>>, "running", v, 0, FALSE) :
                 v \in Verdicts}

\* sng_widget_lose_focus: emits lose-focus, running every connected handler.
RECURSIVE EmitLoseFocus(_, _, _)
EmitLoseFocus(p, n, k) ==
    IF k = 0 THEN [priv |-> p, notes |-> n]
    ELSE LET r == window_focus_default_widget(p, n)
         IN  EmitLoseFocus(r.priv, r.notes, k - 1)

sng_widget_lose_focus(p, widget) ==
    EmitLoseFocus(p, <<>>, SignalHandlers(p, widget))

\* --------------------------------------------------------------- realize
Dims == 1..MaxDim

ABS(a) == IF a < 0 THEN -a ELSE a

\* C integer division: the quotient is truncated toward zero.
CDiv(a, b) == IF a >= 0 THEN a \div b ELSE -((-a) \div b)

\* A Window of the given size before it is realized.
window_new(height, width) ==
    [height |-> height, width |-> width, xpos |-> 0, ypos |-> 0,
     realized |-> FALSE]

\* Variant: the quotient is rounded down, not toward zero.
window_realize_FloorDiv(g, scr) ==
    IF ~g.realized
    THEN [g EXCEPT
            !.xpos = IF g.height # scr.maxy
                     THEN ABS((scr.maxy - g.height) \div 2) ELSE 0,
            !.ypos = IF g.width # scr.maxx
                     THEN ABS((scr.maxx - g.width) \div 2) ELSE 0,
            !.realized = TRUE]
    ELSE g

window_realize(g, scr) ==
    IF ~g.realized
    THEN [g EXCEPT
            !.xpos = IF g.height # scr.maxy
                     THEN ABS(CDiv(scr.maxy - g.height, 2)) ELSE 0,
            !.ypos = IF g.width # scr.maxx
                     THEN ABS(CDiv(scr.maxx - g.width, 2)) ELSE 0,
            !.realized = TRUE]
    ELSE g

window_set_width(g, width) == [g EXCEPT !.width = width]

window_set_height(g, height) == [g EXCEPT !.height = height]

\* ------------------------------------------------------------------- help
\* Input modes of the terminal: reads that time out (halfdelay), reads that
\* block for one key (cbreak), line-buffered reads (cooked).
InputModes == {"halfdelay", "cbreak", "cooked"}

nocbreak(mode) == "cooked"
cbreak(mode) == "cbreak"
halfdelay(mode) == "halfdelay"

\* klass->help may be NULL.  The notes give each call with the input mode
\* in effect when it returned (for the hook: when it was entered).
window_help(mode, hook) ==
    LET m1 == nocbreak(mode)
        m2 == cbreak(m1)
    IN  [tty |-> m2,
         notes |-> <<<<"nocbreak", m1>>, <<"cbreak", m2>>>>
                   \o (IF hook THEN <<<<"help_hook", m2>>>> ELSE <<>>)]

\* ------------------------------------------------------------------- state
window_init ==
    [changed |-> TRUE, focus_chain |-> <<>>, focus_default |-> NULL,
     focus |-> Window]

NoOp == [op |-> "init", arg |-> NULL, ret |-> NoRet, focus0 |-> Window,
         chain0 |-> <<>>, changed0 |-> TRUE, steps |-> 0, nullDeref |-> FALSE,
         origin |-> NULL]

\* The Window and its widgets right after construction.
InitWindow ==
    /\ priv = window_init
    /\ children = [n \in Nodes |-> <<>>]
    /\ visible = [w \in Widgets |-> FALSE]
    /\ status = "running"
    /\ notes = <<>>
    /\ lastOp = NoOp
    /\ streak = <<>>

\* A Window that fills the screen, realized by window_constructed.
FullScreen == [maxy |-> MaxDim, maxx |-> MaxDim]

Init ==
    /\ InitWindow
    /\ can_focus \in [Widgets -> BOOLEAN]
    /\ screen = FullScreen
    /\ geom = window_realize(window_new(MaxDim, MaxDim), FullScreen)
    /\ tty = "cbreak"

\* When window_focus_next directly follows window_focus_prev, or the other
\* way round: the focus before the first call of the pair.
Origin(op) ==
    IF /\ op \in {"window_focus_next", "window_focus_prev"}
       /\ lastOp.op \in {"window_focus_next", "window_focus_prev"}
       /\ lastOp.op # op
    THEN lastOp.focus0
    ELSE NULL

\* Records the call that is being made, with the state it was made in.
Called(op, arg, ret, steps, nd) ==
    lastOp' = [op |-> op, arg |-> arg, ret |-> ret, focus0 |-> priv.focus,
               chain0 |-> priv.focus_chain, changed0 |-> priv.changed,
               steps |-> steps, nullDeref |-> nd, origin |-> Origin(op)]

\* Applies the outcome r of a call on the Window.
Apply(op, arg, r) ==
    /\ priv' = r.priv
    /\ notes' = r.notes
    /\ status' = r.status
    /\ Called(op, arg, r.ret, r.steps, r.nullDeref)
    /\ UNCHANGED termvars

\* A completed window_focus_next extends the streak of consecutive calls.
Extend(r) ==
    IF r.status # "running" THEN <<>>
    ELSE IF streak = <<>> \/ Len(streak) > Len(priv.focus_chain)
         THEN <<priv.focus, r.priv.focus>>
         ELSE Append(streak, r.priv.focus)

Plain(p, n, ret) == Result(p, n, "running", ret, 0, FALSE)

\* ----------------------------------------------------------------- actions
WindowAddWidget(w) ==
    /\ status = "running"
    /\ ~HasParent(children, w)
    /\ LET r == window_add_widget(priv, children, w)
       IN  /\ children' = r.children
           /\ Apply("window_add_widget", w, Plain(r.priv, <<>>, NoRet))
    /\ streak' = <<>>
    /\ UNCHANGED <<can_focus, visible>>

\* A widget is added to a Container other than the Window.
ContainerAdd(c, w) ==
    /\ status = "running"
    /\ TUI_IS_CONTAINER(c)
    /\ ~HasParent(children, w)
    /\ c \notin Subtree(children, w)
    /\ children' = container_add(children, c, w)
    /\ Apply("container_add", w, Plain(priv, <<>>, NoRet))
    /\ streak' = <<>>
    /\ UNCHANGED <<can_focus, visible>>

SetDefaultFocus(w) ==
    /\ status = "running"
    /\ LET r == window_set_default_focus(priv, w)
       IN  Apply("window_set_default_focus", w, Plain(r.priv, r.notes, NoRet))
    /\ streak' = <<>>
    /\ UNCHANGED <<children, can_focus, visible>>

\* A widget with handlers connected emits grab-focus.
GrabFocus(w) ==
    /\ status = "running"
    /\ SignalHandlers(priv, w) > 0
    /\ LET r == sng_widget_grab_focus(priv, <<>>, w)
       IN  Apply("sng_widget_grab_focus", w, Plain(r.priv, r.notes, NoRet))
    /\ streak' = <<>>
    /\ UNCHANGED <<children, can_focus, visible>>

\* A widget with handlers connected emits lose-focus.
LoseFocus(w) ==
    /\ status = "running"
    /\ SignalHandlers(priv, w) > 0
    /\ LET r == sng_widget_lose_focus(priv, w)
       IN  Apply("sng_widget_lose_focus", w, Plain(r.priv, r.notes, NoRet))
    /\ streak' = <<>>
    /\ UNCHANGED <<children, can_focus, visible>>

FocusNext ==
    /\ status = "running"
    /\ \E r \in window_focus_next(priv, visible) :
          /\ Apply("window_focus_next", NULL, r)
          /\ streak' = Extend(r)
    /\ UNCHANGED <<children, can_focus, visible>>

FocusPrev ==
    /\ status = "running"
    /\ \E r \in window_focus_prev(priv, visible) :
          Apply("window_focus_prev", NULL, r)
    /\ streak' = <<>>
    /\ UNCHANGED <<children, can_focus, visible>>

HandleKey(key) ==
    /\ status = "running"
    /\ \E r \in window_handle_key(priv, visible, key) :
          /\ Apply("window_handle_key", key, r)
          /\ streak' = IF key_find_action(key) = "ACTION_NEXT_FIELD"
                       THEN Extend(r) ELSE <<>>
    /\ UNCHANGED <<children, can_focus, visible>>

HandleMouse(hit) ==
    /\ status = "running"
    /\ \E r \in window_handle_mouse(priv, children, hit) :
          Apply("window_handle_mouse", hit, r)
    /\ streak' = <<>>
    /\ UNCHANGED <<children, can_focus, visible>>

Redraw(hook) ==
    /\ status = "running"
    /\ Apply("window_redraw", hook, window_redraw(priv, hook))
    /\ streak' = <<>>
    /\ UNCHANGED <<children, can_focus, visible>>

\* sng_widget_show / sng_widget_hide on a widget of the focus chain (the
\* Window reads the visibility of no other widget).
SetVisible(w, b) ==
    /\ status = "running"
    /\ w \in Range(priv.focus_chain)
    /\ visible[w] # b
    /\ visible' = [visible EXCEPT ![w] = b]
    /\ Apply(IF b THEN "sng_widget_show" ELSE "sng_widget_hide", w,
             Plain(priv, <<>>, NoRet))
    /\ streak' = <<>>
    /\ UNCHANGED <<children, can_focus>>

Next ==
    \/ \E w \in Widgets : WindowAddWidget(w)
    \/ \E c \in Widgets, w \in Widgets : ContainerAdd(c, w)
    \/ \E w \in Widgets : SetDefaultFocus(w)
    \/ \E w \in Widgets : GrabFocus(w)
    \/ \E w \in Widgets : LoseFocus(w)
    \/ FocusNext
    \/ FocusPrev
    \/ \E key \in Keys : HandleKey(key)
    \/ \E hit \in (Subtree(children, Window) \ {Window}) \cup {NULL} :
          HandleMouse(hit)
    \/ \E hook \in RedrawHooks : Redraw(hook)
    \/ \E w \in Widgets, b \in BOOLEAN : SetVisible(w, b)

Spec == Init /\ [][Next]_vars

\* ------------------------------------------------ realization and help
\* A Window of any size under construction on a screen of any size, before
\* window_constructed realizes it; no widget is attached.
InitTerminal ==
    /\ InitWindow
    /\ can_focus = [w \in Widgets |-> FALSE]
    /\ screen \in [maxy : Dims, maxx : Dims]
    /\ \E h \in Dims, w \in Dims : geom = window_new(h, w)
    /\ tty \in {"halfdelay", "cbreak"}

TermCalled(op, arg, n) ==
    /\ lastOp' = [NoOp EXCEPT !.op = op, !.arg = arg]
    /\ notes' = n
    /\ UNCHANGED winvars

\* sng_widget_realize on the Window; arg tells whether it was realized.
Realize ==
    /\ geom' = window_realize(geom, screen)
    /\ TermCalled("window_realize", geom.realized, <<>>)
    /\ UNCHANGED <<screen, tty>>

SetWidth(width) ==
    /\ geom' = window_set_width(geom, width)
    /\ TermCalled("window_set_width", width, <<>>)
    /\ UNCHANGED <<screen, tty>>

SetHeight(height) ==
    /\ geom' = window_set_height(geom, height)
    /\ TermCalled("window_set_height", height, <<>>)
    /\ UNCHANGED <<screen, tty>>

\* window_help; arg is the input mode the call found.
Help(hook) ==
    /\ LET r == window_help(tty, hook)
       IN  /\ tty' = r.tty
           /\ TermCalled("window_help", tty, r.notes)
    /\ UNCHANGED <<screen, geom>>

\* The input loop arms its read timeout again, or the application asks for
\* blocking reads.
SetInputMode(m) ==
    /\ tty # m
    /\ tty' = (IF m = "halfdelay" THEN halfdelay(tty) ELSE cbreak(tty))
    /\ TermCalled("input_mode", m, <<>>)
    /\ UNCHANGED <<screen, geom>>

NextTerminal ==
    \/ Realize
    \/ \E width \in Dims : SetWidth(width)
    \/ \E height \in Dims : SetHeight(height)
    \/ \E hook \in BOOLEAN : Help(hook)
    \/ \E m \in {"halfdelay", "cbreak"} : SetInputMode(m)

SpecTerminal == InitTerminal /\ [][NextTerminal]_vars

TypeOK ==
    /\ priv.focus \in Nodes
    /\ priv.focus_default \in Widgets \cup {NULL}
    /\ priv.changed \in BOOLEAN
    /\ Range(priv.focus_chain) \subseteq Widgets
    /\ status \in {"running", "crashed", "hung"}
    /\ tty \in InputModes
    /\ geom.height \in Dims /\ geom.width \in Dims

\* ------------------------------------------------------------- properties
IsFocusNote(e) == e[1] \in {"focus_lost", "focus_gain"}
FocusNotes == SelectSeq(notes, IsFocusNote)

IsKeyNote(e) == e[1] = "key_pressed"
KeyNotes == SelectSeq(notes, IsKeyNote)

NavOps == {"window_focus_next", "window_focus_prev"}

\* The visibility the last call saw: only SetVisible changes it, and that
\* is then the last call.
AllHidden(chain) == \A i \in 1..Len(chain) : ~visible[chain[i]]
AllVisible(chain) == \A i \in 1..Len(chain) : visible[chain[i]]
SomeVisible(chain) == \E i \in 1..Len(chain) : visible[chain[i]]

\* Calls that hand a known widget to window_set_focused_widget exactly once.
SetFocusCall ==
    \/ lastOp.op = "sng_widget_grab_focus"
    \/ lastOp.op = "window_handle_mouse" /\ lastOp.arg # NULL

\* C1: window_set_focused_widget(w) called while another widget is focused
\* notifies the old widget of the loss, then w of the gain, once each and in
\* that order, and leaves w focused.
C1_TransferNotifiesLostThenGain ==
    (SetFocusCall /\ lastOp.arg # lastOp.focus0) =>
        /\ FocusNotes = <<Lost(lastOp.focus0), Gain(lastOp.arg)>>
        /\ priv.focus = lastOp.arg

C1_Witness ==
    /\ lastOp.op = "sng_widget_grab_focus"
    /\ lastOp.focus0 \in Widgets
    /\ lastOp.arg # lastOp.focus0
    /\ notes = <<Lost(lastOp.focus0), Gain(lastOp.arg)>>
    /\ priv.focus = lastOp.arg

\* C2: window_set_focused_widget(w) called while w is already focused
\* notifies nobody and changes neither the focused widget nor the focus
\* chain; called on its own it leaves the dirty flag as it was.
C2_RefocusIsNoOp ==
    (SetFocusCall /\ lastOp.arg = lastOp.focus0) =>
        /\ FocusNotes = <<>>
        /\ priv.focus = lastOp.focus0
        /\ priv.focus_chain = lastOp.chain0
        /\ lastOp.op = "sng_widget_grab_focus" =>
              (notes = <<>> /\ priv.changed = lastOp.changed0)

C2_Witness ==
    /\ lastOp.op = "sng_widget_grab_focus"
    /\ lastOp.arg = lastOp.focus0
    /\ ~lastOp.changed0
    /\ notes = <<>>

\* C3: with a non-empty focus chain whose members are all hidden,
\* window_focus_next and window_focus_prev return after at most one
\* traversal of the chain and leave the focus where it was.  Stated for a
\* focused widget that is in the chain (C4 is the case where it is not).
C3_AllHiddenTerminates ==
    (/\ lastOp.op \in NavOps
     /\ lastOp.chain0 # <<>>
     /\ AllHidden(lastOp.chain0)
     /\ g_list_find(lastOp.chain0, lastOp.focus0) # 0) =>
        /\ status = "running"
        /\ lastOp.steps <= Len(lastOp.chain0)
        /\ priv.focus = lastOp.focus0

\* C4: when the focused widget is not in the focus chain, window_focus_next
\* and window_focus_prev complete without dereferencing a missing list
\* position, and with an empty chain they leave the focus unchanged.
C4_NotFoundTolerated ==
    (/\ lastOp.op \in NavOps
     /\ g_list_find(lastOp.chain0, lastOp.focus0) = 0) =>
        /\ status = "running"
        /\ ~lastOp.nullDeref
        /\ lastOp.chain0 = <<>> => priv.focus = lastOp.focus0

\* The k-th member after (before) position i, going round the chain.
CyclicAfter(chain, i, k) == chain[((i - 1 + k) % Len(chain)) + 1]
CyclicBefore(chain, i, k) ==
    chain[((i - 1 - k + 2 * Len(chain)) % Len(chain)) + 1]

\* C5: with every chain member visible and the focus on a chain member, N
\* consecutive window_focus_next calls on a chain of length N visit the other
\* members once each in chain order and end on the member they started from.
C5_NextIsCircular ==
    LET chain == priv.focus_chain
        N == Len(chain)
        i0 == g_list_find(chain, streak[1])
    IN  (/\ N >= 1
         /\ Len(streak) = N + 1
         /\ AllVisible(chain)
         /\ i0 # 0) =>
            /\ streak[N + 1] = streak[1]
            /\ \A k \in 1..N : streak[k + 1] = CyclicAfter(chain, i0, k)
            /\ \A k \in 1..(N - 1) : streak[k + 1] # streak[1]

C5_Witness ==
    /\ Len(priv.focus_chain) = 3
    /\ Len(streak) = 4
    /\ AllVisible(priv.focus_chain)
    /\ streak[1] = priv.focus_chain[2]
    /\ streak[4] = streak[1]

\* The first visible member after (before) position i in cyclic order.
FirstVisibleAfter(chain, i) ==
    LET k == CHOOSE k \in 1..Len(chain) :
                /\ visible[CyclicAfter(chain, i, k)]
                /\ \A j \in 1..(k - 1) : ~visible[CyclicAfter(chain, i, j)]
    IN  CyclicAfter(chain, i, k)

FirstVisibleBefore(chain, i) ==
    LET k == CHOOSE k \in 1..Len(chain) :
                /\ visible[CyclicBefore(chain, i, k)]
                /\ \A j \in 1..(k - 1) : ~visible[CyclicBefore(chain, i, j)]
    IN  CyclicBefore(chain, i, k)

\* C6: with the focus on a chain member and some member visible,
\* window_focus_next focuses the first visible member after it in cyclic
\* chain order and window_focus_prev the first visible member before it;
\* the widget they focus is never hidden.
C6_NavFocusesNearestVisible ==
    LET chain == lastOp.chain0
        i0 == g_list_find(chain, lastOp.focus0)
    IN  (lastOp.op \in NavOps /\ i0 # 0 /\ SomeVisible(chain)) =>
            /\ status = "running"
            /\ visible[priv.focus]
            /\ lastOp.op = "window_focus_next" =>
                  priv.focus = FirstVisibleAfter(chain, i0)
            /\ lastOp.op = "window_focus_prev" =>
                  priv.focus = FirstVisibleBefore(chain, i0)

C6_Witness ==
    /\ lastOp.op = "window_focus_next"
    /\ Len(priv.focus_chain) = 3
    /\ visible[priv.focus_chain[1]]
    /\ ~visible[priv.focus_chain[2]]
    /\ visible[priv.focus_chain[3]]
    /\ lastOp.focus0 = priv.focus_chain[1]
    /\ priv.focus = priv.focus_chain[3]

\* The nodes of the subtree rooted at n, each node before its children.
RECURSIVE PreOrder(_, _)
PreOrder(ch, n) ==
    <<n>> \o Flatten([i \in 1..Len(ch[n]) |-> PreOrder(ch, ch[n][i])])

\* C7: attaching a subtree to the Window appends its focusable nodes, in
\* pre-order, after the chain entries already there, and nothing else.
C7_AttachAppendsPreOrder ==
    lastOp.op = "window_add_widget" =>
        priv.focus_chain =
            lastOp.chain0 \o
              SelectSeq(PreOrder(children, lastOp.arg), sng_widget_can_focus)

C7_Witness ==
    /\ lastOp.op = "window_add_widget"
    /\ lastOp.chain0 # <<>>
    /\ children[lastOp.arg] # <<>>
    /\ \E w \in Range(children[lastOp.arg]) :
          priv.focus_chain = lastOp.chain0 \o <<lastOp.arg, w>>

\* C8: window_handle_key with a key bound to NEXT_FIELD or PREV_FIELD
\* navigates, returns KEY_HANDLED and calls no widget's key handler.
C8_NavKeyHandled ==
    (/\ lastOp.op = "window_handle_key"
     /\ key_find_action(lastOp.arg)
            \in {"ACTION_NEXT_FIELD", "ACTION_PREV_FIELD"}) =>
        /\ status = "running"
        /\ lastOp.ret = KEY_HANDLED
        /\ KeyNotes = <<>>

\* C9: after window_handle_key and after window_handle_mouse the dirty flag
\* is set, whatever the input and the outcome.
C9_InputSetsDirty ==
    lastOp.op \in {"window_handle_key", "window_handle_mouse"} => priv.changed

C9_Witness ==
    /\ lastOp.op = "window_handle_mouse"
    /\ ~lastOp.changed0
    /\ lastOp.ret = "KEY_NOT_HANDLED"
    /\ priv.changed

\* C10: window_handle_mouse where no widget is hit returns KEY_HANDLED,
\* notifies nobody and leaves the focused widget unchanged.
C10_MouseMissAbsorbed ==
    (lastOp.op = "window_handle_mouse" /\ lastOp.arg = NULL) =>
        /\ status = "running"
        /\ lastOp.ret = KEY_HANDLED
        /\ notes = <<>>
        /\ priv.focus = lastOp.focus0

C10_Witness ==
    /\ lastOp.op = "window_handle_mouse"
    /\ lastOp.arg = NULL
    /\ lastOp.focus0 \in Widgets
    /\ lastOp.ret = KEY_HANDLED
    /\ priv.focus = lastOp.focus0

\* C11: window_redraw with the dirty flag set clears it and reports that a
\* redraw is needed without asking the subclass hook; with the flag clear it
\* returns the hook's verdict, or "needed" when there is no hook.  So a
\* redraw right after creation or after an input event reports "needed",
\* and the flag is clear for the redraw that follows.
C11_RedrawDirtyThenHook ==
    /\ lastOp.op = "window_redraw" =>
          /\ status = "running"
          /\ ~priv.changed
          /\ IF lastOp.changed0 \/ lastOp.arg = "none"
             THEN lastOp.ret = TRUE /\ notes = <<>>
             ELSE /\ lastOp.ret = (lastOp.arg = "yes")
                  /\ notes = <<<<"redraw_hook", Window>>>>
    /\ lastOp.op \in {"init", "window_handle_key", "window_handle_mouse"} =>
          \A hook \in RedrawHooks :
              /\ window_redraw(priv, hook).ret = TRUE
              /\ window_redraw(priv, hook).notes = <<>>

C11_Witness ==
    /\ lastOp.op = "window_redraw"
    /\ ~lastOp.changed0
    /\ lastOp.arg = "no"
    /\ lastOp.ret = FALSE
    /\ notes = <<<<"redraw_hook", Window>>>>

InChain(w) == w \in Range(priv.focus_chain)

\* C13 as stated: window_set_default_focus(widget) records widget as the
\* default-focus widget and leaves it focused when the call returns.
C13_DefaultFocusAlwaysFocused ==
    lastOp.op = "window_set_default_focus" =>
        /\ priv.focus_default = lastOp.arg
        /\ priv.focus = lastOp.arg

\* C13, amended: window_set_default_focus(widget) records widget as the
\* default-focus widget; it leaves widget focused when widget is in the
\* focus chain, and leaves the focus where it was when it is not.
C13_DefaultFocusFocusedIfInChain ==
    lastOp.op = "window_set_default_focus" =>
        /\ priv.focus_default = lastOp.arg
        /\ priv.focus = IF InChain(lastOp.arg) THEN lastOp.arg
                        ELSE lastOp.focus0
        /\ FocusNotes = IF priv.focus = lastOp.focus0 THEN <<>>
                        ELSE <<Lost(lastOp.focus0), Gain(lastOp.arg)>>

C13_Witness ==
    /\ lastOp.op = "window_set_default_focus"
    /\ InChain(lastOp.arg)
    /\ lastOp.focus0 \in Widgets
    /\ lastOp.focus0 # lastOp.arg
    /\ priv.focus = lastOp.arg
    /\ priv.focus_default = lastOp.arg

\* C14: the focused widget is always in the widget subtree rooted at the
\* Window; at first it is the Window itself.
C14_FocusInSubtree ==
    /\ priv.focus \in Subtree(children, Window)
    /\ lastOp.op = "init" => priv.focus = Window

C14_Witness ==
    /\ lastOp.op \in NavOps
    /\ status = "running"
    /\ priv.focus # lastOp.focus0
    /\ \E c \in Widgets :
          /\ c \in Range(children[Window])
          /\ priv.focus \in Range(children[c])

\* C16: window_handle_mouse on a widget first gives that widget the focus
\* (notifying only when it did not have it), then forwards the click to it
\* exactly once and returns what the widget returned.
C16_MouseHitFocusesThenClicks ==
    (lastOp.op = "window_handle_mouse" /\ lastOp.arg # NULL) =>
        /\ status = "running"
        /\ priv.focus = lastOp.arg
        /\ \E v \in Verdicts :
              /\ lastOp.ret = v
              /\ notes =
                   (IF lastOp.focus0 = lastOp.arg THEN <<>>
                    ELSE <<Lost(lastOp.focus0), Gain(lastOp.arg)>>)
                   \o <<Clicked(lastOp.arg, v)>>

C16_Witness ==
    /\ lastOp.op = "window_handle_mouse"
    /\ lastOp.arg \in Widgets
    /\ lastOp.focus0 \in Widgets
    /\ lastOp.focus0 # lastOp.arg
    /\ lastOp.ret = "KEY_NOT_HANDLED"
    /\ notes = <<Lost(lastOp.focus0), Gain(lastOp.arg),
                 Clicked(lastOp.arg, "KEY_NOT_HANDLED")>>

\* C17: when a chain widget emits lose-focus and the default-focus widget
\* is set and in the chain, the focus ends on the default-focus widget,
\* moved there by window_set_focused_widget.
C17_LoseFocusFallsBackToDefault ==
    (/\ lastOp.op = "sng_widget_lose_focus"
     /\ priv.focus_default # NULL
     /\ InChain(priv.focus_default)) =>
        /\ priv.focus = priv.focus_default
        /\ notes = IF lastOp.focus0 = priv.focus_default THEN <<>>
                   ELSE <<Lost(lastOp.focus0), Gain(priv.focus_default)>>

C17_Witness ==
    /\ lastOp.op = "sng_widget_lose_focus"
    /\ lastOp.arg = lastOp.focus0
    /\ priv.focus_default \in Widgets
    /\ priv.focus_default # lastOp.focus0
    /\ priv.focus = priv.focus_default

\* C18: the focused widget is always the Window itself or a member of the
\* focus chain.
C18_FocusIsWindowOrInChain ==
    priv.focus = Window \/ InChain(priv.focus)

\* C19: every widget of the Window's subtree that can receive focus is in
\* the focus chain, also when it joined a nested container after that
\* container was attached.
C19_FocusableSubtreeInChain ==
    \A w \in Subtree(children, Window) \ {Window} :
        sng_widget_can_focus(w) => InChain(w)

\* C20: from a visible chain member, window_focus_next followed by
\* window_focus_prev, and window_focus_prev followed by window_focus_next,
\* end on the widget they started from, whatever the other members'
\* visibility.
C20_PrevUndoesNext ==
    (/\ lastOp.op \in NavOps
     /\ lastOp.origin # NULL
     /\ InChain(lastOp.origin)
     /\ visible[lastOp.origin]) =>
        /\ status = "running"
        /\ priv.focus = lastOp.origin

C20_Witness ==
    /\ lastOp.op = "window_focus_prev"
    /\ Len(priv.focus_chain) = 3
    /\ lastOp.origin = priv.focus_chain[1]
    /\ visible[priv.focus_chain[1]]
    /\ ~visible[priv.focus_chain[2]]
    /\ visible[priv.focus_chain[3]]
    /\ lastOp.focus0 = priv.focus_chain[3]
    /\ priv.focus = priv.focus_chain[1]

\* C12: on realization the offset computed from a screen dimension and a
\* window dimension is |screen - window| / 2 rounded toward zero: half the
\* gap when the window is smaller, 0 when the two are equal, and never
\* negative when the window is larger.
C12_CenteringOffset ==
    (lastOp.op = "window_realize" /\ lastOp.arg = FALSE) =>
        /\ geom.realized
        /\ geom.xpos = ABS(screen.maxy - geom.height) \div 2
        /\ geom.ypos = ABS(screen.maxx - geom.width) \div 2
        /\ geom.xpos >= 0 /\ geom.ypos >= 0
        /\ geom.height = screen.maxy => geom.xpos = 0
        /\ geom.width = screen.maxx => geom.ypos = 0

C12_Witness ==
    /\ lastOp.op = "window_realize"
    /\ lastOp.arg = FALSE
    /\ geom.height = screen.maxy + 3
    /\ geom.xpos = 1
    /\ geom.width + 3 = screen.maxx
    /\ geom.ypos = 1

HelpHookNotes == SelectSeq(notes, LAMBDA e : e[1] = "help_hook")

\* C15: window_help puts the terminal in blocking-read mode before it calls
\* the subclass help hook, and the input mode in effect before the call is
\* in effect again when window_help returns.
C15_HelpRestoresInputMode ==
    lastOp.op = "window_help" =>
        /\ \A i \in 1..Len(HelpHookNotes) : HelpHookNotes[i][2] = "cbreak"
        /\ tty = lastOp.arg

====
